---- MODULE Spec2Model ----
(***************************************************************************)
(* The x402 payment client of hypernode-app/examples/x402-python-example.py *)
(* (class X402Client) as a state machine: one client object, one caller     *)
(* thread invoking its public methods, the remote service as a              *)
(* nondeterministic source of HTTP responses, and the wall clock.           *)
(*                                                                          *)
(* Text is modelled as a sequence of string tokens, so that joining,        *)
(* formatting and splitting are computed and not assumed.  Hashing,         *)
(* signing and base-58 encoding are symbolic constructors (the usual        *)
(* symbolic treatment of cryptography).  Time is counted in ticks,          *)
(* TicksPerSec ticks to the second, so that sub-second clock readings       *)
(* exist.  HTTP responses are modelled at the level the code reads them:    *)
(* response.ok, response.text and response.json().                          *)
(***************************************************************************)
EXTENDS Integers, Sequences, FiniteSets, TLC

\* ------------------------------------------------------------------ bounds
TicksPerSec == 2
MaxCalls == 2
MaxIdleTicks == 2
MaxPollInterval == 2
MaxWait == 2
MaxFetchTicks == 2
MaxRequests == 2

\* ------------------------------------------------------- program constants
DefaultExpiresIn == 300

\* --------------------------------------------------------------- variables
VARIABLES
    client,      \* the X402Client object: api_url, signing_key, public_key
    b58,         \* whether the attribute base64.b58encode resolves at run time
    now,         \* the wall clock, in ticks
    calls,       \* number of method calls the caller has started
    op,          \* the public method in progress ("none" between calls)
    pc,          \* position inside the method in progress
    outcome,     \* how the last finished call ended: a return or a raise
    wire,        \* the HTTP requests the call in progress has sent, in order
    built,       \* <<i>> for one intent i that an earlier create_payment_intent returned
    origin,      \* <<o>> for that intent: the method that asked for it, the clock second
    \* locals of submit_job / get_pricing / create_payment_intent
    job_type, config, pricing, amount, job_id, expires_in, intent,
    response,    \* the response to the pricing request, then to the submission
    \* locals of wait_for_completion / get_job_status
    poll_interval, max_wait, start_time, status,
    \* observation of the call in progress (history, not program state)
    polls,       \* status fetches made by the call in progress
    sleeps,      \* sleeps made by the call in progress
    firstEnd,    \* <<r>> once a call-ending status response r was received
    afterEnd,    \* fetches and sleeps made after firstEnd was set
    allPending,  \* TRUE while every status response so far was 200 'pending'
    ideal,       \* TRUE while every fetch took no time and every sleep was exact
    signs,       \* calls of SigningKey.sign made by the call in progress
    \* threads that share the client, each with the locals of its own calls
    threads,
    \* a service of src/templates (one app.py, imported into one process)
    template,    \* which app.py it is; "none" before the import
    TASK,        \* huggingface: the TASK global (line 27)
    model,       \* pytorch: the model global (line 31)
    tokenizer,   \* pytorch: the tokenizer global (line 32)
    pipe,        \* huggingface, stable-diffusion: the pipe global
    phase,       \* "none", "imported", then "started" or "failed" by the startup event
    reply,       \* the response to the latest request
    requests,    \* requests handled so far
    inferences   \* calls made to the model or pipeline by the handlers so far

clientVars == <<client, b58>>
submitVars == <<job_type, config, pricing, amount, job_id, expires_in, intent, response>>
waitVars   == <<poll_interval, max_wait, start_time, status>>
histVars   == <<built, origin>>
obsVars    == <<polls, sleeps, firstEnd, afterEnd, allPending, ideal>>
serviceVars == <<template, TASK, model, tokenizer, pipe, phase, reply, requests, inferences>>
vars == <<client, b58, now, calls, op, pc, outcome, wire, built, origin,
          job_type, config, pricing, amount, job_id, expires_in, intent, response,
          poll_interval, max_wait, start_time, status,
          polls, sleeps, firstEnd, afterEnd, allPending, ideal, signs, threads,
          template, TASK, model, tokenizer, pipe, phase, reply, requests, inferences>>

\* ------------------------------------------------------------------- text
None == <<>>

RECURSIVE Concat(_)
Concat(parts) ==
    IF parts = <<>> THEN <<>> ELSE Head(parts) \o Concat(Tail(parts))

\* str(n) of a Python int
Str(n) == <<ToString(n)>>

\* ------------------------------------------------------------------ clock
\* time.time(): seconds since the epoch as a float; kept as ticks here
Time(t) == t
\* int(time.time())
IntTime(t) == t \div TicksPerSec

\* ------------------------------------------------------------- outcomes
\* How a call ends: `return value`, or `raise type(msg)` at a source line.
NoOutcome == [kind |-> "none"]
Return(v) == [kind |-> "return", value |-> v]
Raise(type, line, msg) == [kind |-> "raise", type |-> type, line |-> line, msg |-> msg]

\* ------------------------------------------------------------ JSON values
\* dict.get(key, default)
Get(obj, key, default) == IF key \in DOMAIN obj THEN obj[key] ELSE default

\* ------------------------------------------------- the remote service
\* A response as the code reads it: .ok, .text, and .json() (<<>> when the
\* body is not JSON, <<value>> when it is).
Statuses == {"pending", "running", "completed", "failed", "cancelled"}

StatusResponses ==
    {[ok |-> TRUE, text |-> "{status}", json |-> <<[status |-> s]>>] : s \in Statuses}
    \cup {[ok |-> TRUE, text |-> "{status,error}",
           json |-> <<[status |-> s, error |-> "out of memory"]>>] :
              s \in {"failed", "cancelled"}}
    \cup {[ok |-> FALSE, text |-> "job not found", json |-> <<>>]}

\* ----------------------------------------------------- get_job_status
JobUrl(c, j) == c.api_url \o <<"/x402/jobs/">> \o j

\* lines 142-150: the outcome of get_job_status for the response received
GetJobStatusResult(resp) ==
    IF ~resp.ok
    THEN Raise("Exception", 148, <<"Failed to get job status: ", resp.text>>)
    ELSE Return(resp.json[1])

\* -------------------------------------------------- wait_for_completion
\* variant: the deadline compared with <= instead of <
LoopConditionInclusive(t, start, mw) == Time(t) - start <= mw * TicksPerSec

\* variant: no deadline at all (while True)
LoopConditionForever(t, start, mw) == TRUE

\* line 171: the loop condition
LoopCondition(t, start, mw) == Time(t) - start < mw * TicksPerSec

\* variant: the status literal misspelt, so 'completed' is not recognised
IsCompletedMisspelt(st) == st["status"] = "complete"
\* variant: only 'failed' is treated as a terminated job
IsTerminatedFailedOnly(st) == st["status"] = "failed"

\* line 174
IsCompleted(st) == st["status"] = "completed"
\* line 177
IsTerminated(st) == st["status"] \in {"failed", "cancelled"}

\* line 178
JobTerminated(st) ==
    Raise("Exception", 178, <<"Job ", st["status"], ": ", Get(st, "error", "Unknown")>>)
\* line 182
DidNotComplete(j, mw) ==
    Raise("Exception", 182, <<"Job ">> \o j \o <<" did not complete within ">> \o Str(mw) \o <<"s">>)

\* variant: the interval taken in clock ticks, not in seconds
SleepUntilTicks(t, pi, over) == t + pi + over

\* line 180: time.sleep(poll_interval) suspends for at least poll_interval
SleepUntil(t, pi, over) == t + pi * TicksPerSec + over

\* ------------------------------------------------------------ the client
SecretKeys == {"skA"}
\* line 31: the verify key of a signing key, base-58 encoded
PublicKeyOf(sk) == IF sk = "skA" THEN "pkA" ELSE "pkB"

RECURSIVE RStrip(_, _)
\* str.rstrip(ch)
RStrip(text, ch) ==
    IF text # <<>> /\ text[Len(text)] = ch
    THEN RStrip(SubSeq(text, 1, Len(text) - 1), ch)
    ELSE text

\* lines 21-31: X402Client(api_url, secret_key_base58)
NewClient(api_url, sk) ==
    [api_url |-> RStrip(api_url, "/"), signing_key |-> sk, public_key |-> PublicKeyOf(sk)]

ApiUrls == {<<"http://localhost:3000/api">>, <<"http://localhost:3000/api", "/">>}

\* -------------------------------------------------------- cryptography
\* SigningKey.sign(message).signature: the signature bytes.  The nonce stands
\* for whatever randomness the signing scheme uses.
Sign(sk, message, nonce) == [signer |-> sk, signed |-> message, nonce |-> nonce]
\* what a verifier computes: VerifyKey(payer).verify(message, signature)
Verify(payer, message, sig) == PublicKeyOf(sig.signer) = payer /\ sig.signed = message
\* hashlib.sha256(data).digest()
Sha256(data) == [sha256 |-> data]
\* digest[:16]
First16(digest) == [first16 |-> digest]
\* b58encode(data).decode()
B58Encode(data) == [b58 |-> data]
B58Decode(text) == text.b58

\* ------------------------------------------------- create_payment_intent
\* line 52: datetime.datetime.utcnow().isoformat() + 'Z'.  isoformat() prints
\* the microseconds when they are not zero.
Microsecond(t) == (t % TicksPerSec) * (1000000 \div TicksPerSec)
IsoFormat(t) ==
    <<"1970-01-01T00", ":", "00", ":", ToString(IntTime(t))>>
    \o (IF Microsecond(t) # 0 THEN <<".", ToString(Microsecond(t))>> ELSE <<>>)
\* variant: an aware datetime, whose isoformat() ends in the UTC offset
TimestampWithOffset(t) == IsoFormat(t) \o <<"+00", ":", "00">>

Timestamp(t) == IsoFormat(t) \o <<"Z">>

\* variant: the amount and the job id joined in the other order
MessageReordered(payer, amt, jid, ts, exp) ==
    <<"x402-payment", ":", payer, ":">> \o jid \o <<":">> \o Str(amt) \o <<":">>
    \o ts \o <<":">> \o Str(exp)

\* line 55: the message to sign
Message(payer, amt, jid, ts, exp) ==
    <<"x402-payment", ":", payer, ":">> \o Str(amt) \o <<":">> \o jid \o <<":">>
    \o ts \o <<":">> \o Str(exp)

\* lines 62-63: the intent id
IntentId(message) == B58Encode(First16(Sha256(message)))

\* lines 65-73
MakeIntent(id, payer, amt, jid, ts, exp, sig58) ==
    [id |-> id, payer |-> payer, amount |-> amt, jobId |-> jid, timestamp |-> ts,
     expiresIn |-> exp, signature |-> sig58]

\* variant: the id is the hash of what sign() returned (the signed message,
\* signature included) instead of the hash of the message
CreatePaymentIntentResultIdOfSigned(c, hasB58, amt, jid, exp, t, n) ==
    LET timestamp == Timestamp(t)
        message   == Message(c.public_key, amt, jid, timestamp, exp)
        signature == Sign(c.signing_key, message, n)
    IN  IF ~hasB58
        THEN Raise("AttributeError", 59, <<"module 'base64' has no attribute 'b58encode'">>)
        ELSE Return(MakeIntent(B58Encode(First16(Sha256(signature))), c.public_key, amt,
                               jid, timestamp, exp, B58Encode(signature)))

\* lines 50-73: create_payment_intent read at clock t with signing nonce n;
\* hasB58 tells whether base64.b58encode resolves (line 59 raises when not)
CreatePaymentIntentResult(c, hasB58, amt, jid, exp, t, n) ==
    LET timestamp == Timestamp(t)
        message   == Message(c.public_key, amt, jid, timestamp, exp)
        signature == Sign(c.signing_key, message, n)
    IN  IF ~hasB58
        THEN Raise("AttributeError", 59, <<"module 'base64' has no attribute 'b58encode'">>)
        ELSE Return(MakeIntent(IntentId(message), c.public_key, amt, jid,
                               timestamp, exp, B58Encode(signature)))

\* ------------------------------------------------------------ get_pricing
NoJobType == ""
JobTypes == {"inference_medium", "inference_small"}
Prices == {1000, 2500}

\* lines 194-196
PricingUrl(c, jt) ==
    c.api_url \o <<"/x402/pricing">> \o (IF jt # NoJobType THEN <<"?jobType=", jt>> ELSE <<>>)

PricingResponses(jt) ==
    {[ok |-> TRUE, text |-> "{pricing}",
      json |-> <<[jobType |-> jt, minimumPayment |-> p, resources |-> "gpu"]>>] :
         p \in Prices}
    \cup {[ok |-> FALSE, text |-> "pricing unavailable", json |-> <<>>]}

\* variant: response.ok is not looked at, a failed fetch prices the job at 0
GetPricingResultUnchecked(resp) ==
    IF ~resp.ok
    THEN Return([jobType |-> NoJobType, minimumPayment |-> 0, resources |-> "none"])
    ELSE Return(resp.json[1])

\* lines 198-203
GetPricingResult(resp) ==
    IF ~resp.ok
    THEN Raise("Exception", 201, <<"Failed to get pricing: ", resp.text>>)
    ELSE Return(resp.json[1])

\* ------------------------------------------------------------- submit_job
Configs == {[model |-> "llama-3-70b"]}

\* variant: the clock reading used at its full resolution
NewJobIdPerTick(t) == <<"job_", ToString(Time(t))>>

\* line 96: f"job_{int(time.time())}"
NewJobId(t) == <<"job_", ToString(IntTime(t))>>

\* variant: a price written into the client instead of the fetched one
PaymentAmountFixed(pr) == 1000

\* line 95: the amount handed to create_payment_intent
PaymentAmount(pr) == pr["minimumPayment"]

\* lines 100-104
Submission(it, jt, cfg) == [payment |-> it, jobType |-> jt, config |-> cfg]

\* variant: the two numeric headers filled from each other's field
HeadersSwapped(it) ==
    [ContentType |-> "application/json",
     XPaymentIntentID |-> it.id,
     XPayer |-> it.payer,
     XPaymentSignature |-> it.signature,
     XPaymentAmount |-> Str(it.expiresIn),
     XJobID |-> it.jobId,
     XTimestamp |-> it.timestamp,
     XExpiresIn |-> Str(it.amount)]

\* lines 107-116
Headers(it) ==
    [ContentType |-> "application/json",
     XPaymentIntentID |-> it.id,
     XPayer |-> it.payer,
     XPaymentSignature |-> it.signature,
     XPaymentAmount |-> Str(it.amount),
     XJobID |-> it.jobId,
     XTimestamp |-> it.timestamp,
     XExpiresIn |-> Str(it.expiresIn)]

PostResponses ==
    {[ok |-> TRUE, text |-> "{jobId,status}",
      json |-> <<[jobId |-> <<"job_", "0">>, status |-> "pending"]>>],
     [ok |-> TRUE, text |-> "<html>OK</html>", json |-> <<>>],
     [ok |-> FALSE, text |-> "{message}", json |-> <<[message |-> "payment too low"]>>],
     [ok |-> FALSE, text |-> "{code}", json |-> <<[code |-> "402"]>>],
     [ok |-> FALSE, text |-> "<html>Bad Gateway</html>", json |-> <<>>]}

\* response.json(): raises when the body is not JSON
JsonFails(resp) == resp.json = <<>>
JsonError(line) == Raise("JSONDecodeError", line, <<"Expecting value">>)

\* variant: the raw body always, the server's message never
FailureTextRaw(error, resp) == resp.text

\* line 128: the text after "Job submission failed: "
FailureText(error, resp) == Get(error, "message", resp.text)

\* lines 126-130: the outcome of submit_job for the response received
SubmitResult(resp) ==
    IF ~resp.ok
    THEN IF JsonFails(resp)
         THEN JsonError(127)
         ELSE Raise("Exception", 128,
                    <<"Job submission failed: ", FailureText(resp.json[1], resp)>>)
    ELSE IF JsonFails(resp) THEN JsonError(130) ELSE Return(resp.json[1])

\* ---------------------------------------------------------------- requests
GetRequest(url) == [method |-> "GET", url |-> url]
PostRequest(url, hdrs, body) == [method |-> "POST", url |-> url, headers |-> hdrs, json |-> body]
SubmitUrl(c) == c.api_url \o <<"/x402">>

\* the threads that use the client, and the locals of one before its calls
Threads == {1, 2}
NewThread ==
    [pc |-> "start", job_type |-> NoJobType, config |-> None, pricing |-> None,
     intent |-> None, job |-> None, job_id |-> None, poll_interval |-> 0, max_wait |-> 0,
     start_time |-> 0, status |-> None, outcome |-> NoOutcome, reqs |-> <<>>, log |-> <<>>]

\* -------------------------------------------------- the service templates
\* Python's None, for the globals of the templates
NoneValue == "None"
NoTask == ""
Templates == {"huggingface", "pytorch", "stable-diffusion"}
\* huggingface line 27: the values of the TASK environment variable that
\* the endpoints name
Tasks == {"text-generation", "feature-extraction", "text-classification",
          "zero-shot-classification"}
\* a response: the path asked, the status code and, for an error, its detail
NoReply == [path |-> "", status |-> 0, detail |-> ""]
Reply(path, code, detail) == [path |-> path, status |-> code, detail |-> detail]
\* raise HTTPException(status_code=..., detail=...)
HTTPException(path, code, detail) == Reply(path, code, detail)

\* =================================================================== Init
\* The state after X402Client(...) was constructed and before any call.
ClearedLocals ==
    /\ job_type = NoJobType /\ config = None /\ pricing = None /\ amount = 0
    /\ job_id = None /\ expires_in = 0 /\ intent = None /\ response = None
    /\ poll_interval = 0 /\ max_wait = 0 /\ start_time = 0 /\ status = None
    /\ polls = 0 /\ sleeps = 0 /\ firstEnd = <<>> /\ afterEnd = 0
    /\ allPending = TRUE /\ ideal = TRUE /\ signs = 0

Init ==
    /\ client \in {NewClient(u, sk) : u \in ApiUrls, sk \in SecretKeys}
    /\ b58 \in BOOLEAN
    /\ now = 0
    /\ calls = 0
    /\ op = "none"
    /\ pc = "idle"
    /\ outcome = NoOutcome
    /\ wire = <<>>
    /\ built = <<>>
    /\ origin = <<>>
    /\ ClearedLocals
    /\ threads = [t \in Threads |-> NewThread]
    /\ template = "none" /\ TASK = NoTask
    /\ model = NoneValue /\ tokenizer = NoneValue /\ pipe = NoneValue
    /\ phase = "none" /\ reply = NoReply /\ requests = 0 /\ inferences = 0

\* ================================================================ actions
\* The intent remembered for comparison with a later one is of use only while
\* a later call can build an intent: the last call drops it when it builds none.
KeepHistory ==
    IF calls + 1 = MaxCalls
    THEN built' = <<>> /\ origin' = <<>>
    ELSE UNCHANGED <<built, origin>>

\* What every call does on entry.
Enter(name, first) ==
    /\ pc = "idle"
    /\ calls < MaxCalls
    /\ calls' = calls + 1
    /\ op' = name
    /\ pc' = first
    /\ UNCHANGED <<wire, obsVars>>

\* The call in progress ends with outcome o.
End(o) == pc' = "done" /\ outcome' = o

\* The caller does something else for one tick between two calls.
Elapse ==
    /\ pc = "idle"
    /\ now < MaxIdleTicks
    /\ now' = now + 1
    /\ UNCHANGED <<clientVars, threads, serviceVars, calls, op, pc, outcome, wire, histVars, submitVars,
                   waitVars, obsVars, signs>>

\* The caller takes the outcome of the call that ended; the call's locals and
\* what was observed of it are gone.
Finish ==
    /\ pc = "done"
    /\ pc' = "idle"
    /\ op' = "none"
    /\ outcome' = NoOutcome
    /\ wire' = <<>>
    /\ job_type' = NoJobType /\ config' = None /\ pricing' = None /\ amount' = 0
    /\ job_id' = None /\ expires_in' = 0 /\ intent' = None /\ response' = None
    /\ poll_interval' = 0 /\ max_wait' = 0 /\ start_time' = 0 /\ status' = None
    /\ polls' = 0 /\ sleeps' = 0 /\ firstEnd' = <<>> /\ afterEnd' = 0
    /\ allPending' = TRUE /\ ideal' = TRUE /\ signs' = 0
    /\ UNCHANGED <<clientVars, threads, serviceVars, now, calls, histVars>>

\* ------------------------------------------------- wait_for_completion
\* lines 152-169: the call and start_time = time.time()
CallWaitForCompletion(j, pi, mw) ==
    /\ Enter("wait_for_completion", "wfc_loop")
    /\ job_id' = j
    /\ poll_interval' = pi
    /\ max_wait' = mw
    /\ start_time' = Time(now)
    /\ KeepHistory
    /\ UNCHANGED <<clientVars, threads, serviceVars, now, outcome, job_type, config, pricing, amount,
                   expires_in, intent, response, status, signs>>

\* variant: the loop entered with a fetch, the deadline tested from the
\* second round on (do ... while)
WfcLoopFetchFirst ==
    /\ op = "wait_for_completion" /\ pc = "wfc_loop"
    /\ IF polls = 0 \/ LoopCondition(now, start_time, max_wait)
       THEN pc' = "get_job_status" /\ outcome' = outcome
       ELSE End(DidNotComplete(job_id, max_wait))
    /\ UNCHANGED <<clientVars, threads, serviceVars, now, calls, op, wire, histVars, submitVars, waitVars, obsVars, signs>>

\* lines 171 and 182: the loop condition, and the raise when it is false
WfcLoop ==
    /\ op = "wait_for_completion" /\ pc = "wfc_loop"
    /\ IF LoopCondition(now, start_time, max_wait)
       THEN pc' = "get_job_status" /\ outcome' = outcome
       ELSE End(DidNotComplete(job_id, max_wait))
    /\ UNCHANGED <<clientVars, threads, serviceVars, now, calls, op, wire, histVars, submitVars, waitVars, obsVars, signs>>

\* variant: a failed status fetch is swallowed and polled again after the sleep
WfcAfterFetchSwallowing(res) ==
    IF res.kind = "raise" THEN pc' = "wfc_sleep" /\ outcome' = outcome /\ status' = status
    ELSE /\ status' = res.value
         /\ IF IsCompleted(res.value) THEN End(Return(res.value))
            ELSE IF IsTerminated(res.value) THEN End(JobTerminated(res.value))
            ELSE pc' = "wfc_sleep" /\ outcome' = outcome

\* variant: the deadline tested right after a non-terminal poll, before the sleep
WfcAfterFetchDeadline(res) ==
    IF res.kind = "raise" THEN End(res) /\ status' = status
    ELSE /\ status' = res.value
         /\ IF IsCompleted(res.value) THEN End(Return(res.value))
            ELSE IF IsTerminated(res.value) THEN End(JobTerminated(res.value))
            ELSE IF ~LoopCondition(now', start_time, max_wait)
                 THEN End(DidNotComplete(job_id, max_wait))
            ELSE pc' = "wfc_sleep" /\ outcome' = outcome

\* lines 172-178: status = self.get_job_status(job_id) and the two tests on it
WfcAfterFetch(res) ==
    IF res.kind = "raise" THEN End(res) /\ status' = status
    ELSE /\ status' = res.value
         /\ IF IsCompleted(res.value) THEN End(Return(res.value))
            ELSE IF IsTerminated(res.value) THEN End(JobTerminated(res.value))
            ELSE pc' = "wfc_sleep" /\ outcome' = outcome

\* whether a response is one after which no further fetch or sleep is due
EndsCall(resp) == ~resp.ok \/ resp.json[1]["status"] \in {"completed", "failed", "cancelled"}

\* lines 142-150: one status fetch taking d ticks, by get_job_status called
\* directly or from wait_for_completion
GetJobStatus(resp, d) ==
    /\ pc = "get_job_status"
    /\ wire' = Append(wire, GetRequest(JobUrl(client, job_id)))
    /\ now' = now + d
    /\ polls' = polls + 1
    /\ afterEnd' = IF firstEnd # <<>> THEN afterEnd + 1 ELSE afterEnd
    /\ firstEnd' = IF firstEnd = <<>> /\ EndsCall(resp) THEN <<resp>> ELSE firstEnd
    /\ allPending' = (allPending /\ resp.ok /\ resp.json[1]["status"] = "pending")
    /\ ideal' = (ideal /\ d = 0)
    /\ IF op = "wait_for_completion"
       THEN WfcAfterFetch(GetJobStatusResult(resp))
       ELSE End(GetJobStatusResult(resp)) /\ status' = status
    /\ UNCHANGED <<clientVars, threads, serviceVars, calls, op, histVars, submitVars, poll_interval, max_wait,
                   start_time, sleeps, signs>>

\* line 180: time.sleep(poll_interval), oversleeping by `over` ticks
WfcSleep(over) ==
    /\ op = "wait_for_completion" /\ pc = "wfc_sleep"
    /\ now' = SleepUntil(now, poll_interval, over)
    /\ sleeps' = sleeps + 1
    /\ afterEnd' = IF firstEnd # <<>> THEN afterEnd + 1 ELSE afterEnd
    /\ ideal' = (ideal /\ over = 0)
    /\ pc' = "wfc_loop"
    /\ UNCHANGED <<clientVars, threads, serviceVars, calls, op, outcome, wire, histVars, submitVars, waitVars,
                   polls, firstEnd, allPending, signs>>

\* lines 132-141: get_job_status called directly
CallGetJobStatus(j) ==
    /\ Enter("get_job_status", "get_job_status")
    /\ job_id' = j
    /\ KeepHistory
    /\ UNCHANGED <<clientVars, threads, serviceVars, now, outcome, job_type, config, pricing, amount,
                   expires_in, intent, response, waitVars, signs>>

\* ------------------------------------------------------------ get_pricing
\* lines 184-196: get_pricing called directly
CallGetPricing(jt) ==
    /\ Enter("get_pricing", "get_pricing")
    /\ job_type' = jt
    /\ KeepHistory
    /\ UNCHANGED <<clientVars, threads, serviceVars, now, outcome, config, pricing, amount, job_id,
                   expires_in, intent, response, waitVars, signs>>

\* lines 194-203: one pricing fetch taking d ticks, by get_pricing called
\* directly or from submit_job (line 91)
GetPricing(resp, d) ==
    /\ pc = "get_pricing"
    /\ wire' = Append(wire, GetRequest(PricingUrl(client, job_type)))
    /\ now' = now + d
    /\ response' = resp
    /\ LET res == GetPricingResult(resp)
       IN  IF op = "submit_job" /\ res.kind = "return"
           THEN pricing' = res.value /\ pc' = "sj_intent" /\ outcome' = outcome
           ELSE pricing' = pricing /\ End(res)
    /\ UNCHANGED <<clientVars, threads, serviceVars, calls, op, histVars, job_type, config,
                   amount, job_id, expires_in, intent, waitVars, obsVars, signs>>

\* ------------------------------------------------- create_payment_intent
\* History: any one of the intents returned so far is kept, to be compared
\* with the ones returned later.
Remember(it, by, k) ==
    \/ built' = built /\ origin' = origin
    \/ /\ k < MaxCalls
       /\ built' = <<it>> /\ origin' = <<[op |-> by, sec |-> IntTime(now)]>>

\* lines 33-73: create_payment_intent called directly
CallCreatePaymentIntent(amt, j, exp, n) ==
    /\ Enter("create_payment_intent", "done")
    /\ amount' = amt /\ job_id' = j /\ expires_in' = exp
    /\ signs' = signs + 1
    /\ LET res == CreatePaymentIntentResult(client, b58, amt, j, exp, now, n)
       IN  /\ outcome' = res
           /\ IF res.kind = "return"
              THEN intent' = res.value /\ Remember(res.value, "create_payment_intent", calls + 1)
              ELSE intent' = intent /\ built' = built /\ origin' = origin
    /\ UNCHANGED <<clientVars, threads, serviceVars, now, wire, job_type, config, pricing, response,
                   waitVars>>

\* ------------------------------------------------------------- submit_job
\* lines 75-91: the call; its first step is the pricing fetch
CallSubmitJob(jt, cfg) ==
    /\ Enter("submit_job", "get_pricing")
    /\ job_type' = jt
    /\ config' = cfg
    /\ UNCHANGED <<clientVars, threads, serviceVars, now, outcome, histVars, pricing, amount,
                   job_id, expires_in,
                   intent, response, waitVars, signs>>

\* lines 93-97: intent = self.create_payment_intent(minimumPayment, job id)
SubmitCreateIntent(n) ==
    /\ op = "submit_job" /\ pc = "sj_intent"
    /\ signs' = signs + 1
    /\ LET amt == PaymentAmount(pricing)
           jid == NewJobId(now)
           res == CreatePaymentIntentResult(client, b58, amt, jid, DefaultExpiresIn, now, n)
       IN  /\ amount' = amt /\ job_id' = jid /\ expires_in' = DefaultExpiresIn
           /\ IF res.kind = "return"
              THEN /\ intent' = res.value
                   /\ Remember(res.value, "submit_job", calls)
                   /\ pc' = "sj_post" /\ outcome' = outcome
              ELSE intent' = intent /\ built' = built /\ origin' = origin /\ End(res)
    /\ UNCHANGED <<clientVars, threads, serviceVars, now, calls, op, wire, job_type, config, pricing,
                   response, waitVars, obsVars>>

\* variant: a rejected submission is sent again
SubmitPostRetrying(resp, d) ==
    /\ op = "submit_job" /\ pc = "sj_post"
    /\ wire' = Append(wire, PostRequest(SubmitUrl(client), Headers(intent),
                                        Submission(intent, job_type, config)))
    /\ now' = now + d
    /\ response' = resp
    /\ IF resp.ok THEN End(SubmitResult(resp)) ELSE pc' = pc /\ outcome' = outcome
    /\ UNCHANGED <<clientVars, threads, serviceVars, calls, op, histVars, job_type, config, pricing, amount,
                   job_id, expires_in, intent, waitVars, obsVars, signs>>

\* lines 99-130: the submission request taking d ticks, and its response
SubmitPost(resp, d) ==
    /\ op = "submit_job" /\ pc = "sj_post"
    /\ wire' = Append(wire, PostRequest(SubmitUrl(client), Headers(intent),
                                        Submission(intent, job_type, config)))
    /\ now' = now + d
    /\ response' = resp
    /\ End(SubmitResult(resp))
    /\ UNCHANGED <<clientVars, threads, serviceVars, calls, op, histVars, job_type, config, pricing, amount,
                   job_id, expires_in, intent, waitVars, obsVars, signs>>

\* ================================================== threads on one client
\* lines 234-247 run by a thread of its own: job = client.submit_job(...),
\* then client.wait_for_completion(job['jobId']).  Every step below reads the
\* shared client and clock and the thread's own locals, as the methods do.

\* what a step took from outside: a response, or a clock reading and nonce
Took(resp, t, n) == [resp |-> resp, at |-> t, nonce |-> n]

\* one step of a thread th: its next position, the locals it assigns (a
\* record), the request it sent (<<>> or <<request>>), what it took from
\* outside and, when the sequence ends there, its outcome
Step(th, next, locals, sent, took, o) ==
    [f \in DOMAIN th |->
        CASE f = "pc" -> IF o.kind = "none" THEN next ELSE "done"
          [] f = "outcome" -> o
          [] f = "reqs" -> th.reqs \o sent
          [] f = "log" -> Append(th.log, took)
          [] f \in DOMAIN locals -> locals[f]
          [] OTHER -> th[f]]
NoLocals == [none |-> 0]
ThreadVarsUnchanged ==
    UNCHANGED <<calls, op, pc, outcome, wire, histVars, submitVars, waitVars, obsVars, signs,
                serviceVars>>

\* line 234: client.submit_job(job_type, config)
ThCallSubmitJob(t, jt, cfg, pi, mw) ==
    /\ threads[t].pc = "start"
    /\ threads' = [threads EXCEPT ![t] =
           [@ EXCEPT !.pc = "get_pricing", !.job_type = jt, !.config = cfg,
                     !.poll_interval = pi, !.max_wait = mw]]
    /\ ThreadVarsUnchanged /\ UNCHANGED <<clientVars, now>>

\* line 91 (lines 194-203)
ThGetPricing(t, resp) ==
    /\ threads[t].pc = "get_pricing"
    /\ LET th  == threads[t]
           res == GetPricingResult(resp)
           rq  == <<GetRequest(PricingUrl(client, th.job_type))>>
       IN  threads' = [threads EXCEPT ![t] =
               IF res.kind = "raise"
               THEN Step(th, "done", NoLocals, rq, Took(resp, 0, 0), res)
               ELSE Step(th, "sj_intent", [pricing |-> res.value], rq, Took(resp, 0, 0),
                         NoOutcome)]
    /\ ThreadVarsUnchanged /\ UNCHANGED <<clientVars, now>>

\* lines 93-97 (lines 50-73)
ThCreateIntent(t, n) ==
    /\ threads[t].pc = "sj_intent"
    /\ LET th  == threads[t]
           res == CreatePaymentIntentResult(client, b58, PaymentAmount(th.pricing),
                                            NewJobId(now), DefaultExpiresIn, now, n)
       IN  threads' = [threads EXCEPT ![t] =
               IF res.kind = "raise"
               THEN Step(th, "done", NoLocals, <<>>, Took(None, now, n), res)
               ELSE Step(th, "sj_post", [intent |-> res.value], <<>>, Took(None, now, n),
                         NoOutcome)]
    /\ ThreadVarsUnchanged /\ UNCHANGED <<clientVars, now>>

\* the step of lines 99-130 on the locals of thread t
ThPosted(t, resp) ==
    LET th  == threads[t]
        res == SubmitResult(resp)
        rq  == <<PostRequest(SubmitUrl(client), Headers(th.intent),
                             Submission(th.intent, th.job_type, th.config))>>
    IN  threads' = [threads EXCEPT ![t] =
            IF res.kind = "raise"
            THEN Step(th, "done", NoLocals, rq, Took(resp, 0, 0), res)
            ELSE Step(th, "wfc_call", [job |-> res.value], rq, Took(resp, 0, 0), NoOutcome)]

\* variant: the endpoint path is appended to self.api_url itself
ThPostRebasing(t, resp) ==
    /\ threads[t].pc = "sj_post"
    /\ ThPosted(t, resp)
    /\ client' = [client EXCEPT !.api_url = SubmitUrl(client)]
    /\ ThreadVarsUnchanged /\ UNCHANGED <<b58, now>>

\* lines 99-130
ThPost(t, resp) ==
    /\ threads[t].pc = "sj_post"
    /\ ThPosted(t, resp)
    /\ client' = client
    /\ ThreadVarsUnchanged /\ UNCHANGED <<b58, now>>

\* line 247 (lines 152-169): client.wait_for_completion(job['jobId'])
ThCallWaitForCompletion(t) ==
    /\ threads[t].pc = "wfc_call"
    /\ LET th == threads[t]
       IN  threads' = [threads EXCEPT ![t] =
               Step(th, "wfc_loop", [job_id |-> th.job["jobId"], start_time |-> Time(now)],
                    <<>>, Took(None, now, 0), NoOutcome)]
    /\ ThreadVarsUnchanged /\ UNCHANGED <<clientVars, now>>

\* lines 171 and 182
ThLoop(t) ==
    /\ threads[t].pc = "wfc_loop"
    /\ LET th == threads[t]
       IN  threads' = [threads EXCEPT ![t] =
               IF LoopCondition(now, th.start_time, th.max_wait)
               THEN Step(th, "get_job_status", NoLocals, <<>>, Took(None, now, 0), NoOutcome)
               ELSE Step(th, "done", NoLocals, <<>>, Took(None, now, 0),
                         DidNotComplete(th.job_id, th.max_wait))]
    /\ ThreadVarsUnchanged /\ UNCHANGED <<clientVars, now>>

\* lines 172-178 (lines 142-150)
ThGetJobStatus(t, resp) ==
    /\ threads[t].pc = "get_job_status"
    /\ LET th  == threads[t]
           res == GetJobStatusResult(resp)
           rq  == <<GetRequest(JobUrl(client, th.job_id))>>
       IN  threads' = [threads EXCEPT ![t] =
               IF res.kind = "raise"
               THEN Step(th, "done", NoLocals, rq, Took(resp, 0, 0), res)
               ELSE IF IsCompleted(res.value)
               THEN Step(th, "done", [status |-> res.value], rq, Took(resp, 0, 0),
                         Return(res.value))
               ELSE IF IsTerminated(res.value)
               THEN Step(th, "done", [status |-> res.value], rq, Took(resp, 0, 0),
                         JobTerminated(res.value))
               ELSE Step(th, "wfc_sleep", [status |-> res.value], rq, Took(resp, 0, 0),
                         NoOutcome)]
    /\ ThreadVarsUnchanged /\ UNCHANGED <<clientVars, now>>

\* line 180: the thread sleeps; the clock has moved on when it wakes
ThSleep(t) ==
    /\ threads[t].pc = "wfc_sleep"
    /\ now' = SleepUntil(now, threads[t].poll_interval, 0)
    /\ threads' = [threads EXCEPT ![t] = [@ EXCEPT !.pc = "wfc_loop"]]
    /\ ThreadVarsUnchanged /\ UNCHANGED clientVars


\* ====================================================== service templates
\* One app.py of src/templates in one process.  Its handlers are coroutines
\* without an await, so each runs to its end before another starts.
ClientUnchanged ==
    UNCHANGED <<clientVars, threads, now, calls, op, pc, outcome, wire, histVars, submitVars,
                waitVars, obsVars, signs>>

\* the module is imported: huggingface lines 26-31, pytorch lines 26-32,
\* stable-diffusion lines 30-35
Import(t, task) ==
    /\ template = "none"
    /\ template' = t
    /\ TASK' = IF t = "huggingface" THEN task ELSE NoTask
    /\ model' = NoneValue /\ tokenizer' = NoneValue /\ pipe' = NoneValue
    /\ phase' = "imported"
    /\ UNCHANGED <<reply, requests, inferences>>
    /\ ClientUnchanged

\* huggingface lines 53-76: load_pipeline; the pipeline() call may raise
LoadPipeline(failsAt) ==
    /\ template = "huggingface" /\ phase = "imported"
    /\ pipe' = IF failsAt = "pipeline" THEN pipe ELSE "pipeline"
    /\ phase' = IF failsAt = "none" THEN "started" ELSE "failed"
    /\ UNCHANGED <<template, TASK, model, tokenizer, reply, requests, inferences>>
    /\ ClientUnchanged

\* pytorch lines 49-76: load_model; the tokenizer is assigned first (line 59),
\* the model after it (line 62), and either from_pretrained may raise
LoadModelPytorch(failsAt) ==
    /\ template = "pytorch" /\ phase = "imported"
    /\ tokenizer' = IF failsAt = "tokenizer" THEN tokenizer ELSE "tokenizer"
    /\ model' = IF failsAt \in {"tokenizer", "model"} THEN model ELSE "model"
    /\ phase' = IF failsAt = "none" THEN "started" ELSE "failed"
    /\ UNCHANGED <<template, TASK, pipe, reply, requests, inferences>>
    /\ ClientUnchanged

\* stable-diffusion lines 55-96: load_model; pipe is assigned at line 65 and
\* again at line 78, and the steps in between may raise
LoadModelDiffusion(failsAt) ==
    /\ template = "stable-diffusion" /\ phase = "imported"
    /\ pipe' = CASE failsAt = "from_pretrained" -> pipe
                 [] failsAt = "to" -> "pipeline"
                 [] OTHER -> "pipeline on device"
    /\ phase' = IF failsAt = "none" THEN "started" ELSE "failed"
    /\ UNCHANGED <<template, TASK, model, tokenizer, reply, requests, inferences>>
    /\ ClientUnchanged

\* What a handler does once its checks have passed: it calls the model (the
\* try block) and answers 200, or 500 when anything in the block raises.
Infer(path, raises) ==
    /\ inferences' = inferences + 1
    /\ reply' = IF raises THEN HTTPException(path, 500, "error") ELSE Reply(path, 200, "")

\* a request is taken by a handler of the imported app
Handle(t) ==
    /\ template = t
    /\ requests < MaxRequests
    /\ requests' = requests + 1
    /\ UNCHANGED <<template, TASK, model, tokenizer, pipe, phase>>
    /\ ClientUnchanged

\* /health of the three templates: no check of the globals
HealthCheck ==
    /\ Handle(template) /\ template # "none"
    /\ reply' = Reply("/health", 200, "")
    /\ UNCHANGED inferences

\* variant: the task is checked before the pipeline
GenerateTextTaskFirst(raises) ==
    /\ Handle("huggingface")
    /\ IF TASK # "text-generation"
       THEN reply' = HTTPException("/generate", 400, "wrong task") /\ UNCHANGED inferences
       ELSE IF pipe = NoneValue
       THEN reply' = HTTPException("/generate", 503, "Pipeline not loaded")
            /\ UNCHANGED inferences
       ELSE Infer("/generate", raises)

\* huggingface lines 91-124: generate_text
GenerateText(raises) ==
    /\ Handle("huggingface")
    /\ IF pipe = NoneValue
       THEN reply' = HTTPException("/generate", 503, "Pipeline not loaded")
            /\ UNCHANGED inferences
       ELSE IF TASK # "text-generation"
       THEN reply' = HTTPException("/generate", 400, "wrong task") /\ UNCHANGED inferences
       ELSE Infer("/generate", raises)

\* huggingface lines 127-164: get_embeddings
GetEmbeddings(raises) ==
    /\ Handle("huggingface")
    /\ IF pipe = NoneValue
       THEN reply' = HTTPException("/embed", 503, "Pipeline not loaded")
            /\ UNCHANGED inferences
       ELSE IF TASK # "feature-extraction"
       THEN reply' = HTTPException("/embed", 400, "wrong task") /\ UNCHANGED inferences
       ELSE Infer("/embed", raises)

\* huggingface lines 167-190: classify_text
ClassifyText(raises) ==
    /\ Handle("huggingface")
    /\ IF pipe = NoneValue
       THEN reply' = HTTPException("/classify", 503, "Pipeline not loaded")
            /\ UNCHANGED inferences
       ELSE IF TASK \notin {"text-classification", "zero-shot-classification"}
       THEN reply' = HTTPException("/classify", 400, "wrong task") /\ UNCHANGED inferences
       ELSE Infer("/classify", raises)

\* pytorch lines 90-134: generate
Generate(raises) ==
    /\ Handle("pytorch")
    /\ IF model = NoneValue \/ tokenizer = NoneValue
       THEN reply' = HTTPException("/generate", 503, "Model not loaded")
            /\ UNCHANGED inferences
       ELSE Infer("/generate", raises)

\* stable-diffusion lines 111-156 (/generate) and 159-201 (/generate-image)
GenerateImage(path, raises) ==
    /\ Handle("stable-diffusion")
    /\ IF pipe = NoneValue
       THEN reply' = HTTPException(path, 503, "Model not loaded") /\ UNCHANGED inferences
       ELSE Infer(path, raises)

\* /model-info: huggingface lines 193-206, pytorch lines 137-149,
\* stable-diffusion lines 204-216.  It reads attributes of the model and
\* runs no inference.
ModelInfo ==
    /\ Handle(template) /\ template # "none"
    /\ UNCHANGED inferences
    /\ LET unset == IF template = "pytorch" THEN model = NoneValue ELSE pipe = NoneValue
           detail == IF template = "huggingface" THEN "Pipeline not loaded"
                     ELSE "Model not loaded"
       IN  reply' = IF unset THEN HTTPException("/model-info", 503, detail)
                    ELSE Reply("/model-info", 200, "")

JobIds == {<<"job_", "0">>}
\* job ids handed to create_payment_intent by a caller: any string
IntentJobIds == JobIds \cup {<<"job", ":", "0">>}
Amounts == {1000}
ExpiresIns == {300}
FetchTicks == {0, MaxFetchTicks}
\* line 156: max_wait is any int the caller passes, a negative one included
MaxWaits == -1..MaxWait
Oversleeps == {0, 1}
Nonces == {0, 1}

Next ==
    \/ Elapse
    \/ Finish
    \/ \E j \in JobIds, pi \in 1..MaxPollInterval, mw \in MaxWaits :
          CallWaitForCompletion(j, pi, mw)
    \/ WfcLoop
    \/ \E resp \in StatusResponses, d \in FetchTicks : GetJobStatus(resp, d)
    \/ \E over \in Oversleeps : WfcSleep(over)
    \/ \E j \in JobIds : CallGetJobStatus(j)
    \/ \E jt \in JobTypes \cup {NoJobType} : CallGetPricing(jt)
    \/ \E resp \in PricingResponses(job_type), d \in FetchTicks :
          GetPricing(resp, d)
    \/ \E amt \in Amounts, j \in IntentJobIds, exp \in ExpiresIns, n \in Nonces :
          CallCreatePaymentIntent(amt, j, exp, n)
    \/ \E jt \in JobTypes, cfg \in Configs : CallSubmitJob(jt, cfg)
    \/ \E n \in Nonces : SubmitCreateIntent(n)
    \/ \E resp \in PostResponses, d \in FetchTicks : SubmitPost(resp, d)

Spec == Init /\ [][Next]_vars

\* A call to wait_for_completion that has not ended keeps running: the thread
\* is scheduled, every status request is answered, every sleep returns.
WaitStep ==
    \/ WfcLoop
    \/ \E resp \in StatusResponses, d \in FetchTicks :
          op = "wait_for_completion" /\ GetJobStatus(resp, d)
    \/ \E over \in Oversleeps : WfcSleep(over)

\* One caller thread runs one method at a time, so the calls of the other
\* methods take no part in a call to wait_for_completion: the specification
\* of its progress has the caller make such calls only, at any clock reading.
WaitNext ==
    \/ Elapse
    \/ Finish
    \/ \E j \in JobIds, pi \in 1..MaxPollInterval, mw \in 0..MaxWait :
          CallWaitForCompletion(j, pi, mw)
    \/ WaitStep

\* what the server answers to the calls of the threads
ThreadPricingResponses(jt) == {r \in PricingResponses(jt) : r.ok => r.json[1]["minimumPayment"] = 1000}
ThreadPostResponses ==
    {r \in PostResponses : r.json # <<>> /\ (r.ok \/ "message" \in DOMAIN r.json[1])}
ThreadStatusResponses ==
    {r \in StatusResponses : r.ok => r.json[1]["status"] \in {"pending", "completed"}}

ThreadNext ==
    \/ Elapse
    \/ \E t \in Threads, jt \in JobTypes, cfg \in Configs, mw \in 0..1 :
          ThCallSubmitJob(t, jt, cfg, 1, mw)
    \/ \E t \in Threads : \E resp \in ThreadPricingResponses(threads[t].job_type) :
          ThGetPricing(t, resp)
    \/ \E t \in Threads, n \in {0} : ThCreateIntent(t, n)
    \/ \E t \in Threads, resp \in ThreadPostResponses : ThPost(t, resp)
    \/ \E t \in Threads : ThCallWaitForCompletion(t)
    \/ \E t \in Threads : ThLoop(t)
    \/ \E t \in Threads, resp \in ThreadStatusResponses : ThGetJobStatus(t, resp)
    \/ \E t \in Threads : ThSleep(t)

ThreadSpec == Init /\ [][ThreadNext]_vars

ServiceNext ==
    \/ \E t \in Templates, task \in Tasks : Import(t, task)
    \/ \E f \in {"none", "pipeline"} : LoadPipeline(f)
    \/ \E f \in {"none", "tokenizer", "model"} : LoadModelPytorch(f)
    \/ \E f \in {"none", "from_pretrained", "to"} : LoadModelDiffusion(f)
    \/ HealthCheck
    \/ \E r \in BOOLEAN : GenerateText(r)
    \/ \E r \in BOOLEAN : GetEmbeddings(r)
    \/ \E r \in BOOLEAN : ClassifyText(r)
    \/ \E r \in BOOLEAN : Generate(r)
    \/ \E r \in BOOLEAN, path \in {"/generate", "/generate-image"} : GenerateImage(path, r)
    \/ ModelInfo

ServiceSpec == Init /\ [][ServiceNext]_vars

FairSpec == Init /\ [][WaitNext]_vars /\ WF_vars(WaitStep)

\* ================================================================= claims
InWait == op = "wait_for_completion"
\* the body of the first call-ending status response, when it was a 200
EndedBy(s) == firstEnd # <<>> /\ firstEnd[1].ok /\ firstEnd[1].json[1]["status"] = s
EndBody == firstEnd[1].json[1]

\* C1: in wait_for_completion the first poll that observes 'completed' ends
\* the call: the call returns exactly the snapshot that poll observed, and no
\* status fetch and no sleep happens after it.
C1_CompletedReturnsSnapshot ==
    (InWait /\ EndedBy("completed")) =>
        /\ pc = "done"
        /\ outcome = Return(EndBody)
        /\ afterEnd = 0

\* C1 witness: a call that returned the snapshot of its second poll
C1_Witness ==
    /\ InWait /\ pc = "done" /\ EndedBy("completed")
    /\ outcome.kind = "return" /\ polls = 2 /\ sleeps = 1

\* C2: the first poll that observes 'failed' or 'cancelled' ends the call
\* with the raise of line 178, whose text carries the observed status and the
\* server's error text, with no further poll or sleep; and the call never
\* returns a status object whose status is not 'completed'.
C2_TerminatedRaises ==
    /\ (InWait /\ (EndedBy("failed") \/ EndedBy("cancelled"))) =>
          /\ pc = "done"
          /\ outcome.kind = "raise" /\ outcome.line = 178
          /\ outcome.msg[2] = EndBody["status"]
          /\ ("error" \in DOMAIN EndBody => outcome.msg[4] = EndBody["error"])
          /\ afterEnd = 0
    /\ (InWait /\ outcome.kind = "return") => outcome.value["status"] = "completed"

\* C2 witness: a call ended by a second poll that observed 'cancelled' with
\* an error text
C2_Witness ==
    /\ InWait /\ pc = "done" /\ EndedBy("cancelled") /\ "error" \in DOMAIN EndBody
    /\ outcome.kind = "raise" /\ polls = 2

\* C3: with pollInterval = 1 s, maxWait = 1 s, every response 'pending',
\* fetches taking no time and sleeps exact, the call makes exactly one poll
\* and then fails with the timeout of line 182.
PendingOneSecond ==
    InWait /\ poll_interval = 1 /\ max_wait = 1 /\ allPending /\ ideal
C3_OnePollThenTimeout ==
    PendingOneSecond =>
        /\ polls <= 1
        /\ pc = "done" => (polls = 1 /\ outcome = DidNotComplete(job_id, 1))

\* C3 witness: such a call, ended
C3_Witness == PendingOneSecond /\ pc = "done" /\ polls = 1 /\ sleeps = 1

\* C4: for every pollInterval >= 1 and maxWait >= 0 and whatever the server
\* answers, a call to wait_for_completion eventually ends, in one of four
\* ways: it returns a 'completed' status, or raises for a 'failed'/'cancelled'
\* job (line 178), for a non-success status response (line 148) or for the
\* deadline (line 182); once ended, the call takes no further step.  A server
\* that stays 'pending' or 'running' cannot keep it polling: a poll starts
\* only before the deadline and every sleep lasts a second or more, so the
\* number of polls never exceeds maxWait.
WaitEnded == InWait /\ pc = "done"
WaitOutcomes ==
    \/ outcome.kind = "return" /\ outcome.value["status"] = "completed"
    \/ outcome.kind = "raise" /\ outcome.line \in {148, 178, 182}
C4_WaitTerminates ==
    /\ (InWait /\ poll_interval >= 1 /\ max_wait >= 0) ~> (WaitEnded /\ WaitOutcomes)
    /\ [](InWait => polls <= max_wait)
    /\ [][WaitEnded => ~InWait']_vars

\* C4 witness: a call that ended on the deadline after the server stayed
\* 'pending' or 'running' through two polls
C4_Witness ==
    /\ WaitEnded /\ outcome.kind = "raise" /\ outcome.line = 182
    /\ polls = 2 /\ firstEnd = <<>>

\* submit_job has sent its submission request and has its response
Posted == op = "submit_job" /\ pc = "done" /\ Len(wire) = 2
\* submit_job holds the intent it had built
HasIntent == op = "submit_job" /\ (pc = "sj_post" \/ Posted)
Rejected == Posted /\ ~response.ok

\* C5: when the submission endpoint answers a non-success status with a JSON
\* body that has a 'message' field, submit_job raises the failure of line 128
\* whose text carries exactly that message, and returns no job handle.
C5_RejectionCarriesMessage ==
    (Rejected /\ response.json # <<>> /\ "message" \in DOMAIN response.json[1]) =>
        /\ outcome.kind = "raise" /\ outcome.line = 128
        /\ outcome.msg = <<"Job submission failed: ", response.json[1]["message"]>>

\* C5 witness: a submission rejected with a message
C5_Witness ==
    /\ Rejected /\ response.json = <<[message |-> "payment too low"]>>
    /\ outcome.kind = "raise"

\* C6: when the submission endpoint answers a non-success status whose body
\* is not JSON, submit_job still raises the submission failure of line 128,
\* carrying the raw body, and no other failure escapes.
C6_UnparseableBodyCarried ==
    (Rejected /\ response.json = <<>>) =>
        /\ outcome.kind = "raise" /\ outcome.line = 128
        /\ outcome.msg = <<"Job submission failed: ", response.text>>

\* C7: in every submit_job call that got as far as building its intent, the
\* amount of the intent built and sent is the minimumPayment of the pricing
\* response fetched in that call, for the job type submitted.
C7_AmountIsMinimumPayment ==
    HasIntent =>
        /\ intent.amount = pricing["minimumPayment"]
        /\ wire[1] = GetRequest(PricingUrl(client, job_type))
        /\ Posted => /\ wire[2].json.payment.amount = pricing["minimumPayment"]
                     /\ wire[2].json.jobType = job_type

\* C7 witness: a submission sent after a pricing response of 2500
C7_Witness ==
    Posted /\ pricing["minimumPayment"] = 2500 /\ wire[2].json.payment.amount = 2500

\* C8: in every submission request the seven payment headers equal, field by
\* field, the intent in the body of the same request (numbers in decimal).
HeadersMatchBody(r) ==
    LET h == r.headers
        it == r.json.payment
    IN  /\ h.XPaymentIntentID = it.id
        /\ h.XPayer = it.payer
        /\ h.XPaymentSignature = it.signature
        /\ h.XPaymentAmount = <<ToString(it.amount)>>
        /\ h.XJobID = it.jobId
        /\ h.XTimestamp = it.timestamp
        /\ h.XExpiresIn = <<ToString(it.expiresIn)>>
C8_HeadersMatchBody ==
    \A i \in DOMAIN wire : wire[i].method = "POST" => HeadersMatchBody(wire[i])

\* C8 witness: a submission request was sent
C8_Witness == \E i \in DOMAIN wire : wire[i].method = "POST" /\ wire[i].json.payment = intent

\* create_payment_intent has just returned `intent`
Returned ==
    \/ op = "create_payment_intent" /\ pc = "done" /\ outcome.kind = "return"
    \/ HasIntent
SameCanonicalFields(a, b) ==
    /\ a.payer = b.payer /\ a.amount = b.amount /\ a.jobId = b.jobId
    /\ a.timestamp = b.timestamp /\ a.expiresIn = b.expiresIn

\* C9: two intents built from the same payer, amount, jobId, timestamp and
\* expiresIn have the same id, whatever their signatures.
C9_IdDeterministic ==
    (Returned /\ built # <<>> /\ SameCanonicalFields(built[1], intent)) =>
        built[1].id = intent.id

\* C9 witness: two intents of the same fields, differently signed
C9_Witness ==
    /\ Returned /\ built # <<>> /\ SameCanonicalFields(built[1], intent)
    /\ built[1].signature # intent.signature

\* C10: every intent returned verifies: the message rebuilt from its own
\* fields as "x402-payment:{payer}:{amount}:{jobId}:{timestamp}:{expiresIn}"
\* is the one its signature signs, under the key of its payer.
CanonicalMessage(it) ==
    <<"x402-payment", ":", it.payer, ":", ToString(it.amount), ":">> \o it.jobId
    \o <<":">> \o it.timestamp \o <<":", ToString(it.expiresIn)>>
C10_SignatureVerifies ==
    Returned => Verify(intent.payer, CanonicalMessage(intent), B58Decode(intent.signature))

\* C10 witness: an intent built by submit_job at a clock reading with microseconds
C10_Witness ==
    /\ HasIntent /\ Len(intent.timestamp) = 8
    /\ Verify(intent.payer, CanonicalMessage(intent), B58Decode(intent.signature))

\* C11: within one submit_job call the pricing fetch comes first, then the
\* signing of the intent, then the submission request; when the pricing fetch
\* gets a non-success response the call raises the failure of line 201 and
\* neither signs an intent nor sends a submission.
InSubmit == op = "submit_job"
PricingFailed == InSubmit /\ Len(wire) = 1 /\ ~response.ok
C11_PricingThenIntentThenPost ==
    InSubmit =>
        /\ signs <= 1
        /\ signs = 1 => (Len(wire) >= 1 /\ wire[1] = GetRequest(PricingUrl(client, job_type)))
        /\ \A i \in DOMAIN wire : wire[i].method = "POST" => (i = 2 /\ signs = 1)
        /\ PricingFailed =>
              /\ pc = "done"
              /\ outcome = Raise("Exception", 201, <<"Failed to get pricing: ", response.text>>)
              /\ signs = 0

\* C11 witness: a submit_job call ended by a failed pricing fetch
C11_Witness == PricingFailed /\ pc = "done" /\ outcome.kind = "raise"

\* C12: nothing is retried and nothing is cached: a submit_job call sends
\* exactly one pricing request and at most one submission request whatever
\* the responses are, its intent goes out in at most one request, and every
\* submit_job call, a later one included, sends a pricing request of its own
\* and works with the price that request returned.
Sent(m) == {i \in DOMAIN wire : wire[i].method = m}
C12_NoRetryNoCache ==
    InSubmit =>
        /\ Cardinality(Sent("GET")) = IF pc = "get_pricing" THEN 0 ELSE 1
        /\ pc \in {"sj_intent", "sj_post"} => (response.ok /\ pricing = response.json[1])
        /\ Cardinality(Sent("POST")) <= 1
        /\ \A i \in Sent("POST") : wire[i].json.payment = intent /\ signs = 1

\* C12 witness: the second of two submit_job calls, priced otherwise than
\* the first, its submission rejected
C12_Witness ==
    /\ Rejected /\ calls = 2
    /\ origin # <<>> /\ origin[1].op = "submit_job" /\ built[1].amount # intent.amount

\* C13: when a status poll of wait_for_completion gets a non-success
\* response the call raises the failure of line 148 at once: no further
\* poll, no sleep, and neither a timeout nor a later result in its place.
PollFailed == InWait /\ firstEnd # <<>> /\ ~firstEnd[1].ok
C13_FailedPollRaisesAtOnce ==
    PollFailed =>
        /\ pc = "done"
        /\ outcome = Raise("Exception", 148, <<"Failed to get job status: ", firstEnd[1].text>>)
        /\ afterEnd = 0

\* C13 witness: a call ended by the failure of its second poll
C13_Witness == PollFailed /\ pc = "done" /\ polls = 2 /\ sleeps = 1

\* C14: the kind of a failure of submit_job / wait_for_completion tells its
\* cause: the pricing fetch, the submission, the status fetch, the job's own
\* termination and the timeout each have a kind of their own.
RaiseLines == {128, 148, 178, 182, 201}
ErrorKind(line) ==
    CASE line = 201 -> "PricingFetchError"
      [] line = 128 -> "SubmissionError"
      [] line = 148 -> "StatusFetchError"
      [] line = 178 -> "JobTerminatedError"
      [] line = 182 -> "TimeoutError"
C14_KindIdentifiesCause ==
    (pc = "done" /\ outcome.kind = "raise" /\ outcome.line \in RaiseLines) =>
        /\ outcome.type = ErrorKind(outcome.line)
        /\ \A l \in RaiseLines \ {outcome.line} : outcome.type # ErrorKind(l)

\* C16: create_payment_intent on a constructed client returns an intent with
\* all seven fields for every amount, jobId and expiresIn; no step after the
\* signing fails.
IntentFields == {"id", "payer", "amount", "jobId", "timestamp", "expiresIn", "signature"}
C16_IntentAlwaysBuilt ==
    (op = "create_payment_intent" /\ pc = "done") =>
        /\ outcome.kind = "return"
        /\ DOMAIN outcome.value = IntentFields

\* the call ended on the deadline (line 182)
TimedOut == InWait /\ pc = "done" /\ outcome = DidNotComplete(job_id, max_wait)
\* the time the call has taken so far, and its deadline, in ticks
Elapsed == now - start_time
Deadline == max_wait * TicksPerSec

\* C17 as claimed: wait_for_completion fetches the status at least once
\* before it can fail on the deadline, for every maxWait >= 0.
C17_FetchBeforeTimeout == TimedOut => polls >= 1

\* C17: the deadline is examined before every fetch, the first included: a
\* fetch is started only when the loop test found the elapsed time below
\* maxWait.  So with maxWait = 0 the call fails on the deadline without any
\* fetch, whatever the job's status, and with maxWait > 0 a first fetch
\* precedes any failure on the deadline.
C17_DeadlineBeforeEveryFetch ==
    /\ (InWait /\ pc = "get_job_status") => Elapsed < Deadline
    /\ (InWait /\ max_wait = 0) => (polls = 0 /\ (pc = "done" => TimedOut))
    /\ (TimedOut /\ max_wait > 0) => polls >= 1

\* C17 witness: a call with maxWait = 0 that failed on the deadline unfetched
C17_Witness == TimedOut /\ max_wait = 0 /\ polls = 0 /\ wire = <<>>

\* C18 as claimed: the call never starts a pollInterval sleep once the
\* elapsed time has reached maxWait.
C18_NoSleepPastDeadline == (InWait /\ pc = "wfc_sleep") => Elapsed < Deadline

\* C18: the deadline is not examined between a poll and the sleep: every poll
\* that observed a non-terminal status is followed by a full pollInterval
\* sleep, also when the elapsed time has reached maxWait, and the failure on
\* the deadline comes only from the loop test after that sleep.
C18_SleepAfterEveryPoll ==
    /\ (InWait /\ pc = "wfc_sleep") => (sleeps = polls - 1 /\ firstEnd = <<>>)
    /\ (InWait /\ pc = "wfc_loop") => sleeps = polls
    /\ TimedOut => (sleeps = polls /\ Elapsed >= polls * poll_interval * TicksPerSec)

\* C18 witness: a fetch ran past the deadline and the call still slept a
\* whole pollInterval before it failed on the deadline
C18_Witness ==
    /\ TimedOut /\ polls = 1 /\ sleeps = 1 /\ poll_interval >= 1
    /\ Elapsed >= Deadline + poll_interval * TicksPerSec

\* submit_job has just generated its jobId and built its intent, and an
\* intent of an earlier submit_job call is remembered
TwoSubmits ==
    /\ InSubmit /\ pc = "sj_post"
    /\ origin # <<>> /\ origin[1].op = "submit_job"

\* C19: the jobId submit_job generates depends only on the clock second of
\* its generation: two submit_job calls that generate it within the same
\* second get the same jobId, calls in different seconds get different ones,
\* whatever their job types; and the jobId generated is the one sent.
C19_JobIdBySecond ==
    /\ TwoSubmits => ((origin[1].sec = IntTime(now)) <=> (built[1].jobId = job_id))
    /\ Posted => /\ wire[2].json.payment.jobId = job_id
                 /\ wire[2].headers.XJobID = job_id

\* C19 witness: two submit_job calls in one second, at different clock
\* readings and for different amounts, with the same jobId
C19_Witness ==
    /\ TwoSubmits /\ origin[1].sec = IntTime(now)
    /\ built[1].timestamp # intent.timestamp
    /\ built[1].amount # intent.amount
    /\ built[1].jobId = intent.jobId

\* C19 witness of the other direction: two calls in different seconds
C19_WitnessDistinct == TwoSubmits /\ origin[1].sec # IntTime(now) /\ built[1].jobId # job_id

\* str.split(sep) and sep.join(parts) on texts
RECURSIVE Split(_, _)
Split(text, sep) ==
    IF \A i \in DOMAIN text : text[i] # sep THEN <<text>>
    ELSE LET i == CHOOSE k \in DOMAIN text : text[k] = sep /\ \A j \in 1..(k - 1) : text[j] # sep
         IN  <<SubSeq(text, 1, i - 1)>> \o Split(SubSeq(text, i + 1, Len(text)), sep)
RECURSIVE Join(_, _)
Join(parts, sep) ==
    IF Len(parts) = 0 THEN <<>>
    ELSE IF Len(parts) = 1 THEN parts[1]
    ELSE parts[1] \o <<sep>> \o Join(Tail(parts), sep)
Count(text, ch) == Cardinality({i \in DOMAIN text : text[i] = ch})

\* the message the held intent's signature signs, split on ':'
SignedParts == Split(B58Decode(intent.signature).signed, ":")

\* C20 as claimed: every message create_payment_intent signs splits on ':'
\* into exactly the prefix and the five fields that were joined.
C20_SplitsIntoSix ==
    Returned =>
        /\ Len(SignedParts) = 6
        /\ SignedParts[1] = <<"x402-payment">>
        /\ SignedParts[2] = <<intent.payer>>
        /\ SignedParts[3] = Str(intent.amount)
        /\ SignedParts[4] = intent.jobId
        /\ SignedParts[5] = intent.timestamp
        /\ SignedParts[6] = Str(intent.expiresIn)

\* C20: the timestamp the builder generates holds exactly two ':' and the
\* payer, the amount and expiresIn hold none, so a message splits on ':' into
\* the prefix plus seven parts, plus one more for every ':' of the jobId.
\* The fields are given back by position: payer and amount are parts 2 and
\* 3, expiresIn is the last part, the three parts before it rejoined are the
\* timestamp and the parts in between rejoined are the jobId.
C20_SplitsByPosition ==
    Returned =>
        LET n == Len(SignedParts)
        IN  /\ Count(intent.timestamp, ":") = 2
            /\ n = 8 + Count(intent.jobId, ":")
            /\ SignedParts[1] = <<"x402-payment">>
            /\ SignedParts[2] = <<intent.payer>>
            /\ SignedParts[3] = Str(intent.amount)
            /\ Join(SubSeq(SignedParts, 4, n - 4), ":") = intent.jobId
            /\ Join(SubSeq(SignedParts, n - 3, n - 1), ":") = intent.timestamp
            /\ SignedParts[n] = Str(intent.expiresIn)

\* C20 witness: a message built for a jobId that holds a ':' itself
C20_Witness == Returned /\ Len(SignedParts) = 9 /\ Count(intent.jobId, ":") = 1

\* What a submit-then-wait sequence produces when it runs alone on client c:
\* the requests it sends and how it ends, computed from what it took from
\* outside (server responses and clock readings, in the order taken).
Ran(reqs, o) == [reqs |-> reqs, outcome |-> o]
RECURSIVE AloneWaitLoop(_, _, _, _, _)
AloneWaitLoop(c, j, mw, start, log) ==
    IF log = <<>> THEN Ran(<<>>, NoOutcome)
    ELSE IF ~(log[1].at - start < mw * TicksPerSec) THEN Ran(<<>>, DidNotComplete(j, mw))
    ELSE IF Len(log) < 2 THEN Ran(<<>>, NoOutcome)
    ELSE LET rq  == <<[method |-> "GET", url |-> c.api_url \o <<"/x402/jobs/">> \o j]>>
             res == GetJobStatusResult(log[2].resp)
         IN  IF res.kind = "raise" THEN Ran(rq, res)
             ELSE IF res.value["status"] = "completed" THEN Ran(rq, Return(res.value))
             ELSE IF res.value["status"] \in {"failed", "cancelled"}
                  THEN Ran(rq, JobTerminated(res.value))
             ELSE LET rest == AloneWaitLoop(c, j, mw, start, SubSeq(log, 3, Len(log)))
                  IN  Ran(rq \o rest.reqs, rest.outcome)
AloneWait(c, j, mw, log) ==
    IF log = <<>> THEN Ran(<<>>, NoOutcome)
    ELSE AloneWaitLoop(c, j, mw, log[1].at, Tail(log))
AloneSubmit(c, hasB58, jt, cfg, log) ==
    IF log = <<>> THEN Ran(<<>>, NoOutcome)
    ELSE LET rq1 == <<[method |-> "GET",
                       url |-> c.api_url \o <<"/x402/pricing", "?jobType=", jt>>]>>
             pr  == GetPricingResult(log[1].resp)
         IN  IF pr.kind = "raise" THEN Ran(rq1, pr)
             ELSE IF Len(log) < 2 THEN Ran(rq1, NoOutcome)
             ELSE LET ir == CreatePaymentIntentResult(c, hasB58, pr.value["minimumPayment"],
                                <<"job_", ToString(log[2].at \div TicksPerSec)>>, 300,
                                log[2].at, log[2].nonce)
                  IN  IF ir.kind = "raise" THEN Ran(rq1, ir)
                      ELSE IF Len(log) < 3 THEN Ran(rq1, NoOutcome)
                      ELSE Ran(rq1 \o <<[method |-> "POST", url |-> c.api_url \o <<"/x402">>,
                                         headers |-> Headers(ir.value),
                                         json |-> [payment |-> ir.value, jobType |-> jt,
                                                   config |-> cfg]]>>,
                               SubmitResult(log[3].resp))
Alone(c, hasB58, jt, cfg, mw, log) ==
    LET sub == AloneSubmit(c, hasB58, jt, cfg, log)
    IN  IF Len(log) < 3 \/ sub.outcome.kind # "return" THEN sub
        ELSE LET w == AloneWait(c, sub.outcome.value["jobId"], mw, SubSeq(log, 4, Len(log)))
             IN  Ran(sub.reqs \o w.reqs, w.outcome)

\* thread t has called submit_job
Started(t) == threads[t].pc # "start"
AsAlone(t) ==
    Ran(threads[t].reqs, threads[t].outcome)
        = Alone(client, b58, threads[t].job_type, threads[t].config, threads[t].max_wait,
                threads[t].log)

\* C15: no operation changes the client's api_url, signing key or public
\* identifier after construction, and when two threads run a
\* submit-then-wait sequence each on the one client, in any interleaving of
\* their steps, the requests each has sent and the way it ended are those the
\* sequence produces alone from the same server responses and clock readings.
C15_ThreadsDoNotInterfere ==
    /\ [][client' = client]_vars
    /\ [](\A t \in Threads : Started(t) => AsAlone(t))

\* C15 witness: both sequences ran to their end with their intents built at
\* the same clock reading, one ending on the deadline and the other with a
\* completed job
C15_Witness ==
    /\ \A t \in Threads : threads[t].pc = "done" /\ Len(threads[t].reqs) >= 3
    /\ threads[1].outcome.kind = "raise" /\ threads[1].outcome.line = 182
    /\ threads[2].outcome.kind = "return"
    /\ threads[1].log[2].at = threads[2].log[2].at

\* create_payment_intent has just built `intent`: the clock still reads the
\* instant of line 52
JustBuilt ==
    \/ op = "create_payment_intent" /\ pc = "done" /\ outcome.kind = "return"
    \/ InSubmit /\ pc = "sj_post"

\* C21: the timestamp of every intent is the UTC time at second precision
\* followed by 'Z': it has no sub-second component, two intents built within
\* the same second carry the same timestamp, and the timestamp returned is
\* the one joined into the signed message.
C21_SecondPrecision ==
    JustBuilt =>
        /\ \A i \in DOMAIN intent.timestamp : intent.timestamp[i] # "."
        /\ intent.timestamp[Len(intent.timestamp)] = "Z"
        /\ (built # <<>> /\ origin[1].sec = IntTime(now)) =>
               built[1].timestamp = intent.timestamp
        /\ LET n == Len(SignedParts)
           IN  Join(SubSeq(SignedParts, n - 3, n - 1), ":") = intent.timestamp

\* ceil(a / b) for b >= 1
CeilDiv(a, b) == (a + b - 1) \div b

\* C22: for pollInterval >= 1 the polls of one wait_for_completion call are
\* bounded by the deadline: a poll is started only while the elapsed time is
\* below maxWait and every earlier poll was followed by a sleep of at least
\* pollInterval, so the call makes at most ceil(maxWait / pollInterval)
\* polls, however long the fetches take, and none when maxWait <= 0.
C22_PollsBoundedByDeadline ==
    (InWait /\ poll_interval >= 1) =>
        /\ pc = "get_job_status" =>
              (Elapsed < Deadline /\ Elapsed >= polls * poll_interval * TicksPerSec)
        /\ max_wait > 0 => polls <= CeilDiv(max_wait, poll_interval)
        /\ max_wait <= 0 => polls = 0

\* C22 witness: the bound reached where maxWait is no multiple of
\* pollInterval, with fetches that took no time
C22_Witness ==
    /\ TimedOut /\ ideal /\ max_wait > 0 /\ max_wait % poll_interval # 0
    /\ polls = CeilDiv(max_wait, poll_interval)

\* a call with a negative maxWait, ended without a poll
C22_WitnessNegative == TimedOut /\ max_wait < 0 /\ polls = 0

\* the global the template's endpoints serve from is still None
Unset ==
    /\ template # "none"
    /\ IF template = "pytorch" THEN model = NoneValue ELSE pipe = NoneValue
\* this step handles a request to an inference endpoint or to /model-info
Answered == requests' = requests + 1 /\ reply'.path # "/health"

\* C23: in each of the three templates the global model / pipeline leaves
\* None only in the startup load, and while it is None every inference
\* endpoint and /model-info answers 503 without a call to the model; in the
\* huggingface template that includes a request to an endpoint of another
\* task, which gets 503 and not 400.
C23_UnsetAnswers503 ==
    /\ [][(Unset /\ ~Unset') => (phase = "imported" /\ phase' \in {"started", "failed"})]_vars
    /\ [][(Unset /\ Answered) => (reply'.status = 503 /\ inferences' = inferences)]_vars

\* C23 witness: the huggingface pipeline failed to load and a request to the
\* endpoint of a task other than the configured one was answered 503
C23_Witness ==
    /\ template = "huggingface" /\ phase = "failed" /\ Unset
    /\ TASK = "text-generation" /\ reply = Reply("/embed", 503, "Pipeline not loaded")
    /\ inferences = 0

====
